---- MODULE Spec2Model ----
(***************************************************************************)
(* Model of the log interpreter LogFile::load_v2 (src/src/logfile.rs).     *)
(*                                                                         *)
(* Representation.                                                         *)
(*  - A String the code inspects character by character (a test name, the  *)
(*    fields of a user-defined directive) is a sequence of one-character   *)
(*    strings.  A String the code only copies or compares as a whole (a    *)
(*    report line, the tag s[0] of a directive, an id) is a TLA+ string.   *)
(*  - An f32 is an exact rational <<numerator, denominator>> in lowest     *)
(*    terms with a positive denominator; rounding to 24 bits of mantissa   *)
(*    is not modelled.                                                     *)
(*  - A TreeNode is a record with one field per record field the           *)
(*    interpreter reads; fields a record kind does not have are blank.     *)
(*  - failed_nodes and failed_pins are locals that load_v2 writes and      *)
(*    never reads or returns; they are left out.                           *)
(***************************************************************************)
EXTENDS Integers, Sequences, FiniteSets, TLC

VARIABLES
    pc,           \* position of load_v2: "start", "loop", "done", "io_error", "panic"
    tree,         \* the forest returned by keysight_log::parse_file
    i,            \* number of test-entry nodes the main loop has interpreted
    tests,        \* Vec<Test>
    report,       \* Vec<String> while looping, the joined text once done
    PS_counter,
    product_id, DMC, DMC_mb, index, status, time_start, time_end,
    result,       \* LogFile.result, set when the model is returned
    meta,         \* the modification time p.metadata() gave, None while unread or Err
    time_str,     \* the text u64_to_string returns
    loads         \* the locals of the calls of load_v2 that run side by side

vars == <<pc, tree, i, tests, report, PS_counter,
          product_id, DMC, DMC_mb, index, status, time_start, time_end, result,
          meta, time_str, loads>>

-----------------------------------------------------------------------------
(* Bounds of the model *)

\* longest sequence of test-entry nodes in a mixed forest
MaxNodes == 2

\* longest member list of a group in a group-only forest
MaxMembers == 4

\* longest sequence of "@PS_info" directives in a directive-only forest
MaxDirectives == 3

\* longest forest of a load that runs beside another load
MaxConcurrentNodes == 2

-----------------------------------------------------------------------------
(* f32 values as exact rationals *)

Abs(n) == IF n < 0 THEN -n ELSE n

RECURSIVE GCD(_, _)
GCD(a, b) == IF b = 0 THEN a ELSE GCD(b, a % b)

\* n / d in lowest terms (d > 0)
Ratio(n, d) ==
    LET g == GCD(Abs(n), d)
    IN  IF n = 0 THEN <<0, 1>> ELSE <<n \div g, d \div g>>

\* `x as f32` for an integer x
as_f32(x) == Ratio(x, 1)

-----------------------------------------------------------------------------
(* Strings as character sequences *)

Digits == <<"0", "1", "2", "3", "4", "5", "6", "7", "8", "9">>

IsDigit(c) == \E k \in 1..10 : Digits[k] = c

DigitVal(c) == (CHOOSE k \in 1..10 : Digits[k] = c) - 1

\* str::strip_suffix: <<TRUE, rest>> when s ends with suf, <<FALSE, <<>>>> otherwise
strip_suffix(s, suf) ==
    IF Len(s) >= Len(suf) /\ SubSeq(s, Len(s) - Len(suf) + 1, Len(s)) = suf
    THEN <<TRUE, SubSeq(s, 1, Len(s) - Len(suf))>>
    ELSE <<FALSE, <<>>>>

\* Removes the index from the testname: the characters are consumed up to and
\* including the first '%', and what is left of the iterator is returned.
RECURSIVE strip_index(_)
strip_index(s) ==
    IF s = <<>> THEN <<>>
    ELSE IF Head(s) = "%" THEN Tail(s)
    ELSE strip_index(Tail(s))

\* i32::MAX, the largest value str::parse::<i32> accepts
I32_MAX == 2147483647

I32_MIN == -I32_MAX - 1

\* The digit loop of i32::from_str: checked_mul(10) then checked_add (or
\* checked_sub for a negative number) of every digit.  <<ok, value>>.
RECURSIVE parse_digits(_, _, _)
parse_digits(ds, acc, neg) ==
    IF ds = <<>> THEN <<TRUE, acc>>
    ELSE IF ~IsDigit(Head(ds)) THEN <<FALSE, 0>>
    ELSE LET d == DigitVal(Head(ds))
         IN  IF neg
             THEN IF acc < -(I32_MAX \div 10) THEN <<FALSE, 0>>
                  ELSE IF acc * 10 < I32_MIN + d THEN <<FALSE, 0>>
                  ELSE parse_digits(Tail(ds), acc * 10 - d, neg)
             ELSE IF acc > I32_MAX \div 10 THEN <<FALSE, 0>>
                  ELSE IF acc * 10 > I32_MAX - d THEN <<FALSE, 0>>
                  ELSE parse_digits(Tail(ds), acc * 10 + d, neg)

\* str::parse::<i32>: an optional sign, then at least one digit, nothing else,
\* and a value that fits in 32 bits.  <<TRUE, value>> for Ok, <<FALSE, 0>> for Err.
parse_i32(t) ==
    LET signed == t # <<>> /\ Head(t) \in {"+", "-"}
        neg    == t # <<>> /\ Head(t) = "-"
        ds     == IF signed THEN Tail(t) ELSE t
    IN  IF ds = <<>> THEN <<FALSE, 0>> ELSE parse_digits(ds, 0, neg)

RECURSIVE Pow10(_)
Pow10(k) == IF k = 0 THEN 1 ELSE 10 * Pow10(k - 1)

\* index of the first '.' of t, 0 when there is none
DotAt(t) ==
    IF \E k \in 1..Len(t) : t[k] = "."
    THEN CHOOSE k \in 1..Len(t) : t[k] = "." /\ \A j \in 1..(k - 1) : t[j] # "."
    ELSE 0

\* str::parse::<f32> on plain decimal notation: an optional sign, digits, an
\* optional '.' and more digits, at least one digit in all.  The exponent,
\* "inf" and "nan" forms that Rust also accepts are not in the modelled inputs.
parse_f32(t) ==
    LET signed == t # <<>> /\ Head(t) \in {"+", "-"}
        neg    == t # <<>> /\ Head(t) = "-"
        body   == IF signed THEN Tail(t) ELSE t
        dot    == DotAt(body)
        ip     == IF dot = 0 THEN body ELSE SubSeq(body, 1, dot - 1)
        fp     == IF dot = 0 THEN <<>> ELSE SubSeq(body, dot + 1, Len(body))
        pi     == parse_digits(ip, 0, FALSE)
        pf     == parse_digits(fp, 0, FALSE)
        num    == pi[2] * Pow10(Len(fp)) + pf[2]
    IN  IF Len(ip) + Len(fp) = 0 \/ ~pi[1] \/ ~pf[1] THEN <<FALSE, <<0, 1>>>>
        ELSE <<TRUE, Ratio(IF neg THEN -num ELSE num, Pow10(Len(fp)))>>

\* the decimal rendering of a non-negative integer by format!("{}")
RECURSIVE to_string(_)
to_string(n) ==
    IF n < 10 THEN <<Digits[n + 1]>>
    ELSE to_string(n \div 10) \o <<Digits[(n % 10) + 1]>>

-----------------------------------------------------------------------------
(* u64 timestamps: TLC integers are 32 bits wide, so a u64 x is kept as two   *)
(* decimal limbs <<hi, lo>> with x = hi * 10^6 + lo and 0 <= lo < 10^6.       *)

U64Zero == <<0, 0>>

\* local_time_to_u64: (year - 2000) * 10^10 + month * 10^8 + day * 10^6
\*                    + hour * 10^4 + minute * 10^2 + second
local_time_to_u64(t) ==
    LET hi == (t.year - 2000) * 10000 + t.month * 100 + t.day
        lo == t.hour * 10000 + t.minute * 100 + t.second
    IN  <<hi + (lo \div 1000000), lo % 1000000>>

\* format!("{:02.0}") of a u64: at least two digits, padded with zeros
Pad2(n) == IF n < 10 THEN <<"0">> \o to_string(n) ELSE to_string(n)

\* u64_to_string without the zero padding of the fields
u64_to_string_NoPad(x) ==
    LET YY == x[1] \div 10000
        x1 == <<x[1] % 10000, x[2]>>
        MM == x1[1] \div 100
        x2 == <<x1[1] % 100, x1[2]>>
        DD == x2[1]
        x3 == x2[2]
        hh == x3 \div 10000
        x4 == x3 % 10000
        mm == x4 \div 100
        x5 == x4 % 100
    IN  to_string(YY) \o <<".">> \o to_string(MM) \o <<".">> \o to_string(DD) \o <<" ">>
        \o to_string(hh) \o <<":">> \o to_string(mm) \o <<":">> \o to_string(x5)

\* u64_to_string: YYMMDDhhmmss => YY.MM.DD hh:mm:ss.  On the limbs <<hi, lo>>,
\* x / 10^10 is hi / 10^4, x % 10^10 keeps hi % 10^4, and so on down to 10^6,
\* below which only lo is left.
u64_to_string(x) ==
    LET YY == x[1] \div 10000
        x1 == <<x[1] % 10000, x[2]>>
        MM == x1[1] \div 100
        x2 == <<x1[1] % 100, x1[2]>>
        DD == x2[1]
        x3 == x2[2]
        hh == x3 \div 10000
        x4 == x3 % 10000
        mm == x4 \div 100
        x5 == x4 % 100
    IN  Pad2(YY) \o <<".">> \o Pad2(MM) \o <<".">> \o Pad2(DD) \o <<" ">>
        \o Pad2(hh) \o <<":">> \o Pad2(mm) \o <<":">> \o Pad2(x5)

-----------------------------------------------------------------------------
(* Result and type tags *)

\* impl From<i32> for BResult
BResult_from(value) == IF value = 0 THEN "Pass" ELSE "Fail"

\* impl From<keysight_log::AnalogTest> for TType
TType_from(value) ==
    CASE value = "Cap"         -> "Capacitor"
      [] value = "Diode"       -> "Diode"
      [] value = "Fuse"        -> "Fuse"
      [] value = "Inductor"    -> "Inductor"
      [] value = "Jumper"      -> "Jumper"
      [] value = "Measurement" -> "Measurement"
      [] value = "NFet"        -> "NFet"
      [] value = "PFet"        -> "PFet"
      [] value = "Npn"         -> "Npn"
      [] value = "Pnp"         -> "Pnp"
      [] value = "Pot"         -> "Pot"
      [] value = "Res"         -> "Resistor"
      [] value = "Switch"      -> "Switch"
      [] value = "Zener"       -> "Zener"
      [] value = "Error"       -> "Unknown"

\* Option<T>: None is the empty sequence, Some(x) the one-element sequence
None == <<>>

Some(x) == <<x>>

LimNone == <<"None">>

\* struct Test
Test(name, ttype, outcome, value, limits) ==
    [name |-> name, ttype |-> ttype, result |-> <<outcome, value>>, limits |-> limits]

-----------------------------------------------------------------------------
(* keysight_log::TreeNode: data (a KeysightPrefix) and branches *)

Blank ==
    [kind |-> "", name |-> <<>>, hasName |-> FALSE, atype |-> "", status |-> 0,
     value |-> <<0, 1>>, aux |-> <<0, 0, 0>>, lims |-> <<>>, text |-> "",
     tag |-> "", args |-> <<>>, id |-> "", mb_id |-> None, t_start |-> U64Zero,
     t_end |-> U64Zero, b_index |-> 0, branches |-> <<>>]

\* Analog(analog, status, result, sub_name)
AnalogNode(analog, st, res, sub_name, br) ==
    [Blank EXCEPT !.kind = "Analog", !.atype = analog, !.status = st, !.value = res,
                  !.hasName = (sub_name # None),
                  !.name = IF sub_name = None THEN <<>> ELSE sub_name[1],
                  !.branches = br]

\* Block(b_name, _)
BlockNode(b_name, br) ==
    [Blank EXCEPT !.kind = "Block", !.name = b_name, !.hasName = TRUE, !.branches = br]

\* Boundary(test_name, status, _, _)
BoundaryNode(test_name, st, br) ==
    [Blank EXCEPT !.kind = "Boundary", !.name = test_name, !.hasName = TRUE,
                  !.status = st, !.branches = br]

\* Digital(status, _, _, _, test_name)
DigitalNode(st, test_name, br) ==
    [Blank EXCEPT !.kind = "Digital", !.name = test_name, !.hasName = TRUE,
                  !.status = st, !.branches = br]

\* TJet(status, _, test_name)
TJetNode(st, test_name, br) ==
    [Blank EXCEPT !.kind = "TJet", !.name = test_name, !.hasName = TRUE,
                  !.status = st, !.branches = br]

\* Pins(_, status, _)
PinsNode(st, br) == [Blank EXCEPT !.kind = "Pins", !.status = st, !.branches = br]

\* Shorts(status, s1, s2, s3, _)
ShortsNode(st, s1, s2, s3, br) ==
    [Blank EXCEPT !.kind = "Shorts", !.status = st, !.aux = <<s1, s2, s3>>, !.branches = br]

\* Report(rpt)
ReportNode(rpt) == [Blank EXCEPT !.kind = "Report", !.text = rpt]

\* Lim2(max, min)
Lim2Node(max, min) == [Blank EXCEPT !.kind = "Lim2", !.lims = <<max, min>>]

\* Lim3(nom, max, min)
Lim3Node(nom, max, min) == [Blank EXCEPT !.kind = "Lim3", !.lims = <<nom, max, min>>]

\* UserDefined(s): tag is s[0], args are s[1..]; s is never empty
UserDefinedNode(s0, rest) == [Blank EXCEPT !.kind = "UserDefined", !.tag = s0, !.args = rest]

\* Batch(p_id, ...)
BatchNode(p_id, br) == [Blank EXCEPT !.kind = "Batch", !.id = p_id, !.branches = br]

\* BTest(b_id, b_status, t_start, ..., t_end, _, b_index, mb_id)
BTestNode(b_id, b_status, ts, te, bi, mb, br) ==
    [Blank EXCEPT !.kind = "BTest", !.id = b_id, !.status = b_status, !.t_start = ts,
                  !.t_end = te, !.b_index = bi, !.mb_id = mb, !.branches = br]

\* any other record kind: AlarmId, Alarm, Array, Error, DPin, Pin, ShortsSrc,
\* ShortsDest, ShortsOpen, ...
OtherNode(k, br) == [Blank EXCEPT !.kind = k, !.branches = br]

-----------------------------------------------------------------------------
(* Sub-record loops *)

\* `for subfield in branches { Report(rpt) => report.push(rpt), _ => diagnostic }`
RECURSIVE ReportLines(_)
ReportLines(br) ==
    IF br = <<>> THEN <<>>
    ELSE (IF Head(br).kind = "Report" THEN <<Head(br).text>> ELSE <<>>)
         \o ReportLines(Tail(br))

\* the same loop over branches.iter().skip(1)
ReportLinesSkip1(br) == IF br = <<>> THEN <<>> ELSE ReportLines(Tail(br))

\* the sub-record loop of a shorts record: report lines directly below it and
\* below its ShortsSrc and ShortsOpen sub-entries, in file order
RECURSIVE ShortsReportLines(_)
ShortsReportLines(br) ==
    IF br = <<>> THEN <<>>
    ELSE (CASE Head(br).kind = "Report" -> <<Head(br).text>>
            [] Head(br).kind \in {"ShortsSrc", "ShortsOpen"} -> ReportLines(Head(br).branches)
            [] OTHER -> <<>>)
         \o ShortsReportLines(Tail(br))

\* AnalogLimits turning a two-point limit into the three-point form
AnalogLimits_Coerce(br) ==
    IF br = <<>> THEN LimNone
    ELSE CASE br[1].kind = "Lim2" -> <<"Lim3", <<0, 1>>, br[1].lims[1], br[1].lims[2]>>
           [] br[1].kind = "Lim3" -> <<"Lim3", br[1].lims[1], br[1].lims[2], br[1].lims[3]>>
           [] OTHER -> LimNone

\* the limits of an analog entry: decided by its first branch alone
AnalogLimits(br) ==
    IF br = <<>> THEN LimNone
    ELSE CASE br[1].kind = "Lim2" -> <<"Lim2", br[1].lims[1], br[1].lims[2]>>
           [] br[1].kind = "Lim3" -> <<"Lim3", br[1].lims[1], br[1].lims[2], br[1].lims[3]>>
           [] OTHER -> LimNone

-----------------------------------------------------------------------------
(* The record handlers of the main loop.  st is the interpreter's state        *)
(* [tests, report, PS_counter]; each handler gives the state after the record. *)

N_pins == <<"p", "i", "n", "s">>

N_shorts == <<"s", "h", "o", "r", "t", "s">>

N_Programming_time ==
    <<"P", "r", "o", "g", "r", "a", "m", "m", "i", "n", "g", "_", "t", "i", "m", "e">>

N_PS_Info_ == <<"P", "S", "_", "I", "n", "f", "o", "_">>

N_Voltage == <<"%", "V", "o", "l", "t", "a", "g", "e">>

N_Current == <<"%", "C", "u", "r", "r", "e", "n", "t">>

S_msec == <<"m", "s", "e", "c">>

\* pre-populate pins test
PinsTest == Test(N_pins, "Pin", "Unknown", <<0, 1>>, LimNone)

\* Analog outside of a group
AnalogEntry(st, test) ==
    IF test.hasName
    THEN [st EXCEPT
            !.report = @ \o ReportLinesSkip1(test.branches),
            !.tests = Append(@, Test(strip_index(test.name), TType_from(test.atype),
                                     BResult_from(test.status), test.value,
                                     AnalogLimits(test.branches)))]
    ELSE st

\* Analog member of a group; b is [tests, report, digital_tp, boundary_tp]
BlockAnalog(b, block_name, sub_test) ==
    [b EXCEPT
       !.report = @ \o ReportLinesSkip1(sub_test.branches),
       !.tests = Append(@, Test(IF sub_test.hasName
                                THEN block_name \o <<"%">> \o sub_test.name
                                ELSE block_name,
                                TType_from(sub_test.atype), BResult_from(sub_test.status),
                                sub_test.value, AnalogLimits(sub_test.branches)))]

\* BlockDigital with the status test dropped: every later occurrence overwrites
BlockDigital_AlwaysOverwrite(b, block_name, sub_test) ==
    LET b1 == [b EXCEPT !.report = @ \o ReportLines(sub_test.branches)]
    IN  IF b1.digital_tp # None
        THEN [b1 EXCEPT !.tests[b1.digital_tp[1] + 1].result =
                           <<BResult_from(sub_test.status), as_f32(sub_test.status)>>]
        ELSE [b1 EXCEPT
                !.digital_tp = Some(Len(b1.tests)),
                !.tests = Append(@, Test(strip_index(sub_test.name), "Digital",
                                         BResult_from(sub_test.status),
                                         as_f32(sub_test.status), LimNone))]

\* Digital member of a group: the first one creates the slot digital_tp, a later
\* one with a non-zero status overwrites the slot's result
BlockDigital(b, block_name, sub_test) ==
    LET b1 == [b EXCEPT !.report = @ \o ReportLines(sub_test.branches)]
    IN  IF b1.digital_tp # None
        THEN IF sub_test.status # 0
             THEN [b1 EXCEPT !.tests[b1.digital_tp[1] + 1].result =
                                <<BResult_from(sub_test.status), as_f32(sub_test.status)>>]
             ELSE b1
        ELSE [b1 EXCEPT
                !.digital_tp = Some(Len(b1.tests)),
                !.tests = Append(@, Test(strip_index(sub_test.name), "Digital",
                                         BResult_from(sub_test.status),
                                         as_f32(sub_test.status), LimNone))]

\* Test-jet member of a group
BlockTJet(b, block_name, sub_test) ==
    [b EXCEPT
       !.report = @ \o ReportLines(sub_test.branches),
       !.tests = Append(@, Test(block_name \o <<"%">> \o strip_index(sub_test.name),
                                "Testjet", BResult_from(sub_test.status),
                                as_f32(sub_test.status), LimNone))]

\* Boundary-scan member of a group: as for digital, with the slot boundary_tp
BlockBoundary(b, block_name, sub_test) ==
    LET b1 == [b EXCEPT !.report = @ \o ReportLines(sub_test.branches)]
    IN  IF b1.boundary_tp # None
        THEN IF sub_test.status # 0
             THEN [b1 EXCEPT !.tests[b1.boundary_tp[1] + 1].result =
                                <<BResult_from(sub_test.status), as_f32(sub_test.status)>>]
             ELSE b1
        ELSE [b1 EXCEPT
                !.boundary_tp = Some(Len(b1.tests)),
                !.tests = Append(@, Test(strip_index(sub_test.name), "BoundaryS",
                                         BResult_from(sub_test.status),
                                         as_f32(sub_test.status), LimNone))]

\* one iteration of `for sub_test in &test.branches`
BlockMember(b, block_name, sub_test) ==
    CASE sub_test.kind = "Analog"   -> BlockAnalog(b, block_name, sub_test)
      [] sub_test.kind = "Digital"  -> BlockDigital(b, block_name, sub_test)
      [] sub_test.kind = "TJet"     -> BlockTJet(b, block_name, sub_test)
      [] sub_test.kind = "Boundary" -> BlockBoundary(b, block_name, sub_test)
      [] sub_test.kind = "Report"   -> [b EXCEPT !.report = Append(@, sub_test.text)]
      [] OTHER -> b

RECURSIVE BlockLoop(_, _, _)
BlockLoop(b, block_name, members) ==
    IF members = <<>> THEN b
    ELSE BlockLoop(BlockMember(b, block_name, Head(members)), block_name, Tail(members))

\* BlockEntry with a digital slot that outlives the group: the slot starts at
\* the last digital Test already in the list
BlockEntry_StaleSlot(st, test) ==
    LET olds == { k \in 1..Len(st.tests) : st.tests[k].ttype = "Digital" }
        old  == IF olds = {} THEN None
                ELSE Some((CHOOSE k \in olds : \A j \in olds : j <= k) - 1)
        b == BlockLoop([tests |-> st.tests, report |-> st.report,
                        digital_tp |-> old, boundary_tp |-> None],
                       strip_index(test.name), test.branches)
    IN  [st EXCEPT !.tests = b.tests, !.report = b.report]

\* Block(b_name, _): a group
BlockEntry(st, test) ==
    LET b == BlockLoop([tests |-> st.tests, report |-> st.report,
                        digital_tp |-> None, boundary_tp |-> None],
                       strip_index(test.name), test.branches)
    IN  [st EXCEPT !.tests = b.tests, !.report = b.report]

\* Boundary outside of a group
BoundaryEntry(st, test) ==
    [st EXCEPT
       !.report = @ \o ReportLines(test.branches),
       !.tests = Append(@, Test(strip_index(test.name), "BoundaryS",
                                BResult_from(test.status), as_f32(test.status), LimNone))]

\* DigitalEntry with the group's slot rule: an entry of the same name is reused
DigitalEntry_Merge(st, test) ==
    LET same == { k \in 1..Len(st.tests) :
                    st.tests[k].ttype = "Digital" /\ st.tests[k].name = strip_index(test.name) }
        st1  == [st EXCEPT !.report = @ \o ReportLines(test.branches)]
    IN  IF same # {}
        THEN IF test.status # 0
             THEN [st1 EXCEPT !.tests[CHOOSE k \in same : TRUE].result =
                                 <<BResult_from(test.status), as_f32(test.status)>>]
             ELSE st1
        ELSE [st1 EXCEPT
                !.tests = Append(@, Test(strip_index(test.name), "Digital",
                                         BResult_from(test.status), as_f32(test.status),
                                         LimNone))]

\* Digital outside of a group
DigitalEntry(st, test) ==
    [st EXCEPT
       !.report = @ \o ReportLines(test.branches),
       !.tests = Append(@, Test(strip_index(test.name), "Digital",
                                BResult_from(test.status), as_f32(test.status), LimNone))]

\* PinsResult appending a pin-group Test instead of patching index 0
PinsResult_Append(ts, st) ==
    Append(ts, Test(N_pins, "Pin", BResult_from(st), as_f32(st), LimNone))

\* PinsResult patching the last entry instead of index 0
PinsResult_Last(ts, st) == [ts EXCEPT ![Len(ts)].result = <<BResult_from(st), as_f32(st)>>]

\* tests[0].result = (BResult::from(*status), *status as f32)
PinsResult(ts, st) == [ts EXCEPT ![1].result = <<BResult_from(st), as_f32(st)>>]

\* Pins(_, status, _)
PinsEntry(st, test) ==
    [st EXCEPT
       !.report = @ \o ReportLines(test.branches),
       !.tests = PinsResult(@, test.status)]

\* Report(rpt) at the test-entry level
ReportEntry(st, test) == [st EXCEPT !.report = Append(@, test.text)]

\* TJet outside of a group
TJetEntry(st, test) ==
    [st EXCEPT
       !.report = @ \o ReportLines(test.branches),
       !.tests = Append(@, Test(strip_index(test.name), "Testjet",
                                BResult_from(test.status), as_f32(test.status), LimNone))]

\* if *s1 > 0 || *s2 > 0 || *s3 > 0 { status = 1; }
ShortsStatus(p, s1, s2, s3) == IF s1 > 0 \/ s2 > 0 \/ s3 > 0 THEN 1 ELSE p

\* Shorts(status, s1, s2, s3, _)
ShortsEntry(st, test) ==
    LET eff == ShortsStatus(test.status, test.aux[1], test.aux[2], test.aux[3])
    IN  [st EXCEPT
           !.report = @ \o ShortsReportLines(test.branches),
           !.tests = Append(@, Test(N_shorts, "Shorts", BResult_from(eff),
                                    as_f32(eff), LimNone))]

\* ProgrammingTime without the division by 1000
ProgrammingTime_Millis(st, test) ==
    IF 1 + Len(test.args) < 2 THEN st
    ELSE LET t  == strip_suffix(test.args[1], S_msec)
             ts == parse_i32(t[2])
         IN  IF t[1] /\ ts[1]
             THEN [st EXCEPT !.tests = Append(@, Test(N_Programming_time, "Unknown", "Pass",
                                                      as_f32(ts[2]), LimNone))]
             ELSE st

\* ProgrammingTime degrading a malformed directive to an error placeholder
ProgrammingTime_Placeholder(st, test) ==
    LET placeholder == [st EXCEPT !.tests = Append(@, Test(N_Programming_time, "Unknown",
                                                          "Fail", as_f32(0), LimNone))]
    IN  IF 1 + Len(test.args) < 2 THEN placeholder
        ELSE LET t  == strip_suffix(test.args[1], S_msec)
                 ts == parse_i32(t[2])
             IN  IF t[1] /\ ts[1]
                 THEN [st EXCEPT !.tests = Append(@, Test(N_Programming_time, "Unknown", "Pass",
                                                          Ratio(ts[2], 1000), LimNone))]
                 ELSE placeholder

\* UserDefined(s) with s[0] = "@Programming_time"; s.len() is 1 + Len(args)
ProgrammingTime(st, test) ==
    IF 1 + Len(test.args) < 2 THEN st
    ELSE LET t  == strip_suffix(test.args[1], S_msec)
             ts == parse_i32(t[2])
         IN  IF t[1] /\ ts[1]
             THEN [st EXCEPT !.tests = Append(@, Test(N_Programming_time, "Unknown", "Pass",
                                                      Ratio(ts[2], 1000), LimNone))]
             ELSE st

\* PSInfo counting every "@PS_info" directive, the malformed ones too
PSInfo_CountsEvery(st, test) ==
    LET n == st.PS_counter + 1
    IN  IF 1 + Len(test.args) < 3 THEN [st EXCEPT !.PS_counter = n]
        ELSE LET tv == strip_suffix(test.args[1], <<"V">>)
                 voltage == parse_f32(tv[2])
                 ta == strip_suffix(test.args[2], <<"A">>)
                 current == parse_f32(ta[2])
             IN  IF tv[1] /\ voltage[1] /\ ta[1] /\ current[1]
                 THEN [st EXCEPT
                         !.PS_counter = n,
                         !.tests = @ \o
                            <<Test(N_PS_Info_ \o to_string(n) \o N_Voltage, "Measurement",
                                   "Pass", voltage[2], LimNone),
                              Test(N_PS_Info_ \o to_string(n) \o N_Current, "Current",
                                   "Pass", current[2], LimNone)>>]
                 ELSE [st EXCEPT !.PS_counter = n]

\* UserDefined(s) with s[0] = "@PS_info"
PSInfo(st, test) ==
    IF 1 + Len(test.args) < 3 THEN st
    ELSE LET tv == strip_suffix(test.args[1], <<"V">>)
             voltage == parse_f32(tv[2])
             ta == strip_suffix(test.args[2], <<"A">>)
             current == parse_f32(ta[2])
             n  == st.PS_counter + 1
         IN  IF tv[1] /\ voltage[1] /\ ta[1] /\ current[1]
             THEN [st EXCEPT
                     !.PS_counter = n,
                     !.tests = @ \o
                        <<Test(N_PS_Info_ \o to_string(n) \o N_Voltage, "Measurement",
                               "Pass", voltage[2], LimNone),
                          Test(N_PS_Info_ \o to_string(n) \o N_Current, "Current",
                               "Pass", current[2], LimNone)>>]
             ELSE st

\* UserDefined(s) => match s[0].as_str()
UserDefinedEntry(st, test) ==
    CASE test.tag = "@Programming_time" -> ProgrammingTime(st, test)
      [] test.tag = "@PS_info"          -> PSInfo(st, test)
      [] OTHER                          -> st

-----------------------------------------------------------------------------
(* Header selection *)

Last(sq) == sq[Len(sq)]

\* batch_node: the last top-level node, when it is a Batch record
batch_node == IF tree # <<>> /\ Last(tree).kind = "Batch" THEN Some(Last(tree)) ELSE None

\* btest_candidate taking the first branch of the batch node instead of the last
btest_candidate_First ==
    IF batch_node # None
    THEN IF batch_node[1].branches = <<>> THEN None ELSE Some(Head(batch_node[1].branches))
    ELSE IF tree = <<>> THEN None ELSE Some(Last(tree))

\* the node examined as board-test header: the last branch of the batch node,
\* or the last top-level node when there is no batch node
btest_candidate ==
    IF batch_node # None
    THEN IF batch_node[1].branches = <<>> THEN None ELSE Some(Last(batch_node[1].branches))
    ELSE IF tree = <<>> THEN None ELSE Some(Last(tree))

\* btest_node: that node, when it is a BTest record
btest_node ==
    IF btest_candidate # None /\ btest_candidate[1].kind = "BTest"
    THEN btest_candidate ELSE None

\* test_nodes with the branches of the first board test of the batch put
\* before those of the selected one
test_nodes_FirstBoardTestToo ==
    IF btest_node # None
    THEN IF batch_node # None /\ Len(batch_node[1].branches) >= 2
         THEN batch_node[1].branches[1].branches \o btest_node[1].branches
         ELSE btest_node[1].branches
    ELSE tree

\* the nodes iterated by the main loop
test_nodes == IF btest_node # None THEN btest_node[1].branches ELSE tree

\* the node the main loop is at
test_entry == test_nodes[i + 1]

St == [tests |-> tests, report |-> report, PS_counter |-> PS_counter]

\* `match &test.data`: the state after the test entry.  The todo!() arms do
\* not return; they are left to the Todo step of the state machine.
EntryHandler(st, test) ==
    CASE test.kind = "Analog"      -> AnalogEntry(st, test)
      [] test.kind = "Block"       -> BlockEntry(st, test)
      [] test.kind = "Boundary"    -> BoundaryEntry(st, test)
      [] test.kind = "Digital"     -> DigitalEntry(st, test)
      [] test.kind = "Pins"        -> PinsEntry(st, test)
      [] test.kind = "Report"      -> ReportEntry(st, test)
      [] test.kind = "TJet"        -> TJetEntry(st, test)
      [] test.kind = "Shorts"      -> ShortsEntry(st, test)
      [] test.kind = "UserDefined" -> UserDefinedEntry(st, test)
      [] OTHER                     -> st

\* `for test in test_nodes`, from the state st
RECURSIVE MainLoop(_, _)
MainLoop(st, nodes) ==
    IF nodes = <<>> THEN st ELSE MainLoop(EntryHandler(st, Head(nodes)), Tail(nodes))

\* the locals of load_v2 before the main loop
St0 == [tests |-> <<PinsTest>>, report |-> <<>>, PS_counter |-> 0]

\* report.join("\n")
RECURSIVE Join(_)
Join(lines) ==
    IF lines = <<>> THEN <<>>
    ELSE IF Len(lines) = 1 THEN lines
    ELSE <<Head(lines), "\n">> \o Join(Tail(lines))

-----------------------------------------------------------------------------
(* The modelled inputs: the forests parse_file can return *)

N_17c617 == <<"1", "7", "%", "c", "6", "1", "7">>

N_c617 == <<"c", "6", "1", "7">>

N_2ab == <<"2", "%", "a", "%", "b">>

N_1u1 == <<"1", "%", "u", "1">>

N_u2 == <<"u", "2">>

N_3d1 == <<"3", "%", "d", "1">>

N_d2 == <<"d", "2">>

A_1500msec == <<"1", "5", "0", "0", "m", "s", "e", "c">>

A_1500 == <<"1", "5", "0", "0">>

A_15x0msec == <<"1", "5", "x", "0", "m", "s", "e", "c">>

A_minus5msec == <<"-", "5", "m", "s", "e", "c">>

A_maxmsec == <<"2", "1", "4", "7", "4", "8", "3", "6", "4", "7", "m", "s", "e", "c">>

A_overmsec == <<"2", "1", "4", "7", "4", "8", "3", "6", "4", "8", "m", "s", "e", "c">>

A_12V == <<"1", "2", ".", "0", "V">>

A_12 == <<"1", "2", ".", "0">>

A_05A == <<"0", ".", "5", "A">>

A_xA == <<"x", "A">>

A_5V == <<"5", "V">>

A_2A == <<"2", "A">>

\* f32 literals
F(n, d) == Ratio(n, d)

AnalogEntries ==
    { AnalogNode("Res", 0, F(5, 1), Some(N_17c617), <<Lim2Node(F(55, 10), F(45, 10))>>),
      AnalogNode("Cap", 3, F(1, 4), Some(N_c617),
                 <<Lim3Node(F(1, 2), F(3, 4), F(1, 4)), ReportNode("r1")>>),
      AnalogNode("Diode", 0, F(7, 10), Some(N_17c617),
                 <<ReportNode("r1"), Lim2Node(F(55, 10), F(45, 10)), ReportNode("r2")>>),
      AnalogNode("Res", 0, F(5, 1), None, <<Lim2Node(F(55, 10), F(45, 10)), ReportNode("r1")>>),
      AnalogNode("Error", 1, F(0, 1), Some(N_2ab), <<>>) }

TodoEntries == { OtherNode("AlarmId", <<>>), OtherNode("Alarm", <<>>), OtherNode("Array", <<>>) }

BlockEntries ==
    { BlockNode(N_1u1, <<DigitalNode(0, N_3d1, <<>>), DigitalNode(3, N_d2, <<ReportNode("r1")>>)>>),
      BlockNode(N_1u1, <<TJetNode(3, N_3d1, <<OtherNode("DPin", <<>>)>>),
                         BoundaryNode(N_3d1, 0, <<>>)>>),
      BlockNode(N_u2, <<AnalogNode("Res", 0, F(5, 1), Some(N_3d1),
                                   <<Lim2Node(F(55, 10), F(45, 10))>>),
                        ReportNode("r2")>>),
      BlockNode(N_1u1, <<AnalogNode("Cap", 3, F(1, 4), None,
                                    <<ReportNode("r1"), Lim3Node(F(1, 2), F(3, 4), F(1, 4))>>),
                         UserDefinedNode("@PS_info", <<A_12V, A_05A>>),
                         OtherNode("Error", <<>>), PinsNode(3, <<>>)>>) }

BoundaryEntries ==
    { BoundaryNode(N_17c617, 0, <<>>), BoundaryNode(N_17c617, 3, <<ReportNode("r1")>>),
      BoundaryNode(N_c617, 3, <<>>) }

DigitalEntries ==
    { DigitalNode(0, N_17c617, <<>>), DigitalNode(3, N_17c617, <<OtherNode("DPin", <<>>)>>),
      DigitalNode(0, N_c617, <<>>), DigitalNode(3, N_2ab, <<ReportNode("r2")>>) }

PinsEntries ==
    { PinsNode(0, <<>>), PinsNode(3, <<ReportNode("r2"), OtherNode("Pin", <<>>)>>) }

ReportEntries == { ReportNode("r3") }

TJetEntries == { TJetNode(0, N_17c617, <<>>), TJetNode(3, N_c617, <<ReportNode("r1")>>) }

\* the primary status and the three auxiliary codes are 32-bit signed integers
ShortsCodes ==
    { <<0, 0, 0, 0>>, <<2, 0, 0, 0>>, <<0, 1, 0, 0>>, <<0, 0, 2, 0>>, <<0, 0, 0, 1>>,
      <<2, 0, 1, 0>>, <<0, -1, 0, 0>> }

ShortsEntries ==
    { ShortsNode(c[1], c[2], c[3], c[4], <<>>) : c \in ShortsCodes }
    \cup { ShortsNode(1, 1, 0, 0,
                      <<ReportNode("r1"),
                        OtherNode("ShortsSrc", <<OtherNode("ShortsDest", <<>>), ReportNode("r2")>>),
                        OtherNode("ShortsOpen", <<ReportNode("r3")>>)>>) }

UserDefinedEntries ==
    { UserDefinedNode("@Programming_time", a) :
        a \in { <<>>, <<A_1500msec>>, <<A_1500>>, <<A_15x0msec>>, <<A_minus5msec>>,
                <<A_maxmsec>>, <<A_overmsec>>, <<S_msec>> } }
    \cup { UserDefinedNode("@PS_info", a) :
        a \in { <<A_12V, A_05A>>, <<A_12V>>, <<A_12, A_05A>>, <<A_12V, A_xA>> } }
    \cup { UserDefinedNode("@Other", <<A_1500msec>>) }

ErrorEntries == { OtherNode("Error", <<>>) }

\* records that are not legal at the test-entry level
InvalidEntries == { Lim2Node(F(55, 10), F(45, 10)) }

TopNodes ==
    AnalogEntries \cup TodoEntries \cup BlockEntries \cup BoundaryEntries \cup DigitalEntries
    \cup PinsEntries \cup ReportEntries \cup TJetEntries \cup ShortsEntries
    \cup UserDefinedEntries \cup ErrorEntries \cup InvalidEntries

SeqsUpTo(S, n) == UNION { [1..k -> S] : k \in 0..n }

\* forests of test entries without headers
MixedForests == SeqsUpTo(TopNodes, MaxNodes)

GroupMembers ==
    { DigitalNode(0, N_3d1, <<>>), DigitalNode(3, N_3d1, <<>>), DigitalNode(5, N_d2, <<>>),
      BoundaryNode(N_3d1, 0, <<>>), BoundaryNode(N_d2, 3, <<>>),
      TJetNode(0, N_3d1, <<>>) }

\* forests of one group
GroupForests == { <<BlockNode(N_1u1, m)>> : m \in SeqsUpTo(GroupMembers, MaxMembers) }

T_start == <<240115, 143000>>

T_end == <<240115, 143107>>

HeadedTests ==
    { <<>>, <<DigitalNode(3, N_17c617, <<>>)>>,
      <<PinsNode(0, <<>>), ReportNode("r3")>> }

BTests(t) ==
    { BTestNode("D1", 0, T_start, T_end, 2, Some("MB1"), t),
      BTestNode("D2", 3, T_start, U64Zero, 1, None, t),
      BTestNode("D3", 0, U64Zero, U64Zero, 1, None, t),
      BTestNode("D4", 0, U64Zero, T_end, 1, None, t) }

\* forests with a batch header and/or a board-test header
HeadedForests ==
    UNION { { <<BatchNode("P1", <<b>>)>>,
              <<BatchNode("P1", <<BTestNode("D0", 1, T_start, T_end, 1, None,
                                            <<ReportNode("r1")>>), b>>)>>,
              <<ReportNode("r1"), BatchNode("P1", <<b>>)>>,
              <<b>> } : b \in UNION { BTests(t) : t \in HeadedTests } }
    \cup { <<BatchNode("P1", <<>>)>>, <<BatchNode("P1", <<ReportNode("r1")>>)>> }

PSDirectives ==
    { UserDefinedNode("@PS_info", a) :
        a \in { <<A_12V, A_05A>>, <<A_5V, A_2A>>, <<A_12V>>, <<A_12, A_05A>>, <<A_5V, A_xA>> } }

\* forests of "@PS_info" directives, well-formed and malformed
DirectiveForests == SeqsUpTo(PSDirectives, MaxDirectives)

Forests == MixedForests \cup GroupForests \cup HeadedForests \cup DirectiveForests

\* file modification times
MTimes ==
    { [year |-> 2024, month |-> 1, day |-> 15, hour |-> 14, minute |-> 30, second |-> 0],
      [year |-> 2023, month |-> 12, day |-> 31, hour |-> 23, minute |-> 59, second |-> 59] }

-----------------------------------------------------------------------------
(* The state machine of load_v2 *)

\* Init with empty strings in place of the "NoID" and "NoDMC" defaults
Init_NoDefaults ==
    /\ pc = "start"
    /\ tree = <<>>
    /\ i = 0
    /\ tests = <<PinsTest>>
    /\ report = <<>>
    /\ PS_counter = 0
    /\ product_id = ""
    /\ DMC = ""
    /\ DMC_mb = "NoMB"
    /\ index = 1
    /\ status = 0
    /\ time_start = U64Zero
    /\ time_end = U64Zero
    /\ result = FALSE
    /\ meta = None
    /\ time_str = <<>>
    /\ loads = <<>>

Init ==
    /\ pc = "start"
    /\ tree = <<>>
    /\ i = 0
    /\ tests = <<PinsTest>>
    /\ report = <<>>
    /\ PS_counter = 0
    /\ product_id = "NoID"
    /\ DMC = "NoDMC"
    /\ DMC_mb = "NoMB"
    /\ index = 1
    /\ status = 0
    /\ time_start = U64Zero
    /\ time_end = U64Zero
    /\ result = FALSE
    /\ meta = None
    /\ time_str = <<>>
    /\ loads = <<>>

\* keysight_log::parse_file(p)? returns Err: load_v2 returns the I/O error
ParseFileError ==
    /\ pc = "start"
    /\ pc' = "io_error"
    /\ UNCHANGED <<tree, i, tests, report, PS_counter, product_id, DMC, DMC_mb, index,
                   status, time_start, time_end, result, meta, time_str, loads>>

\* parse_file returns a forest; the batch and board-test headers are read
ParseFile ==
    /\ pc = "start"
    /\ tree' \in Forests
    /\ product_id' = IF batch_node' # None THEN batch_node'[1].id ELSE product_id
    /\ IF btest_node' # None
       THEN LET btest == btest_node'[1]
            IN  /\ DMC' = btest.id
                /\ DMC_mb' = IF btest.mb_id # None THEN btest.mb_id[1] ELSE btest.id
                /\ status' = btest.status
                /\ time_start' = btest.t_start
                /\ time_end' = btest.t_end
                /\ index' = btest.b_index
       ELSE UNCHANGED <<DMC, DMC_mb, status, time_start, time_end, index>>
    /\ pc' = "loop"
    /\ UNCHANGED <<i, tests, report, PS_counter, result, meta, time_str, loads>>

\* the main loop is at a node of one of the kinds K
At(K) == pc = "loop" /\ i < Len(test_nodes) /\ test_entry.kind \in K

\* the loop goes on to the next node with the interpreter state st
Continue(st) ==
    /\ tests' = st.tests
    /\ report' = st.report
    /\ PS_counter' = st.PS_counter
    /\ i' = i + 1
    /\ UNCHANGED <<pc, tree, product_id, DMC, DMC_mb, index, status, time_start,
                   time_end, result, meta, time_str, loads>>

Analog == At({"Analog"}) /\ Continue(AnalogEntry(St, test_entry))

\* AlarmId, Alarm and Array are todo!(): the thread panics
Todo ==
    /\ At({"AlarmId", "Alarm", "Array"})
    /\ pc' = "panic"
    /\ UNCHANGED <<tree, i, tests, report, PS_counter, product_id, DMC, DMC_mb, index,
                   status, time_start, time_end, result, meta, time_str, loads>>

Block == At({"Block"}) /\ Continue(BlockEntry(St, test_entry))

Boundary == At({"Boundary"}) /\ Continue(BoundaryEntry(St, test_entry))

Digital == At({"Digital"}) /\ Continue(DigitalEntry(St, test_entry))

Pins == At({"Pins"}) /\ Continue(PinsEntry(St, test_entry))

Report == At({"Report"}) /\ Continue(ReportEntry(St, test_entry))

TJet == At({"TJet"}) /\ Continue(TJetEntry(St, test_entry))

Shorts == At({"Shorts"}) /\ Continue(ShortsEntry(St, test_entry))

UserDefined == At({"UserDefined"}) /\ Continue(UserDefinedEntry(St, test_entry))

Error == At({"Error"}) /\ Continue(St)

HandledKinds ==
    {"Analog", "AlarmId", "Alarm", "Array", "Block", "Boundary", "Digital", "Pins",
     "Report", "TJet", "Shorts", "UserDefined", "Error"}

\* `_ =>`: a record that is not legal at this level
Invalid ==
    /\ pc = "loop" /\ i < Len(test_nodes) /\ test_entry.kind \notin HandledKinds
    /\ Continue(St)

\* Finish without the fallback of the end time to the start time
Finish_NoEndFallback ==
    /\ pc = "loop" /\ i = Len(test_nodes)
    /\ IF time_start = U64Zero
       THEN /\ meta' \in {None} \cup {Some(t) : t \in MTimes}
            /\ time_start' = IF meta' # None THEN local_time_to_u64(meta'[1]) ELSE time_start
       ELSE UNCHANGED <<meta, time_start>>
    /\ result' = (status = 0)
    /\ report' = Join(report)
    /\ pc' = "done"
    /\ UNCHANGED <<tree, i, tests, PS_counter, product_id, DMC, DMC_mb, index, status,
                   time_end, time_str, loads>>

\* after the loop: the timestamp fallback, and the model is returned
Finish ==
    /\ pc = "loop" /\ i = Len(test_nodes)
    /\ IF time_start = U64Zero
       THEN /\ meta' \in {None} \cup {Some(t) : t \in MTimes}
            /\ time_start' = IF meta' # None THEN local_time_to_u64(meta'[1]) ELSE time_start
       ELSE UNCHANGED <<meta, time_start>>
    /\ time_end' = IF time_end = U64Zero THEN time_start' ELSE time_end
    /\ result' = (status = 0)
    /\ report' = Join(report)
    /\ pc' = "done"
    /\ UNCHANGED <<tree, i, tests, PS_counter, product_id, DMC, DMC_mb, index, status,
                   time_str, loads>>

Next ==
    \/ ParseFileError
    \/ ParseFile
    \/ Analog
    \/ Todo
    \/ Block
    \/ Boundary
    \/ Digital
    \/ Pins
    \/ Report
    \/ TJet
    \/ Shorts
    \/ UserDefined
    \/ Error
    \/ Invalid
    \/ Finish

Spec == Init /\ [][Next]_vars

-----------------------------------------------------------------------------
(* The time conversions on their own: a date-time is packed by               *)
(* local_time_to_u64 and the packed value is rendered by u64_to_string.      *)

\* date-times with a year in 2000..2099
DateTimes ==
    { [year |-> y, month |-> mo, day |-> d, hour |-> h, minute |-> mi, second |-> se] :
        y \in {2000, 2024, 2099}, mo \in {1, 12}, d \in {1, 15, 31},
        h \in {0, 14, 23}, mi \in {0, 30, 59}, se \in {0, 59} }

InitTime ==
    /\ pc = "time"
    /\ meta \in { Some(t) : t \in DateTimes }
    /\ time_start = U64Zero
    /\ time_str = <<>>
    /\ tree = <<>> /\ i = 0 /\ tests = <<>> /\ report = <<>> /\ PS_counter = 0
    /\ product_id = "NoID" /\ DMC = "NoDMC" /\ DMC_mb = "NoMB" /\ index = 1
    /\ status = 0 /\ time_end = U64Zero /\ result = FALSE /\ loads = <<>>

\* local_time_to_u64(t)
PackTime ==
    /\ pc = "time"
    /\ time_start' = local_time_to_u64(meta[1])
    /\ pc' = "packed"
    /\ UNCHANGED <<tree, i, tests, report, PS_counter, product_id, DMC, DMC_mb, index,
                   status, time_end, result, meta, time_str, loads>>

\* u64_to_string(x)
RenderTime ==
    /\ pc = "packed"
    /\ time_str' = u64_to_string(time_start)
    /\ pc' = "shown"
    /\ UNCHANGED <<tree, i, tests, report, PS_counter, product_id, DMC, DMC_mb, index,
                   status, time_start, time_end, result, meta, loads>>

NextTime ==
    \/ PackTime
    \/ RenderTime

SpecTime == InitTime /\ [][NextTime]_vars

-----------------------------------------------------------------------------
(* Vocabulary of the properties *)

\* the main loop has interpreted at least one node and is not in the middle of one
Interpreting == pc \in {"loop", "done"}

\* the node the main loop interpreted last
last_entry == test_nodes[i]

HasPercent(s) == \E k \in 1..Len(s) : s[k] = "%"

\* the text after the leading '<index>%' of a name that contains a '%'
AfterPrefix(s) ==
    LET k == CHOOSE j \in 1..Len(s) : s[j] = "%" /\ \A h \in 1..(j - 1) : s[h] # "%"
    IN  SubSeq(s, k + 1, Len(s))

Range(sq) == { sq[k] : k \in 1..Len(sq) }

\* the names carried by the test entries and by the members of the groups
RecordNames ==
    { n.name : n \in { m \in Range(test_nodes) : m.hasName } }
    \cup UNION { { m.name : m \in { x \in Range(b.branches) : x.hasName } } :
                 b \in { n \in Range(test_nodes) : n.kind = "Block" } }

-----------------------------------------------------------------------------
(* C1 *)

\* C1: whatever record kinds appear at the test-entry level (alarm, alarm-id and
\* array records included), the interpretation runs to completion: the load
\* never aborts because of a record's kind, only on file I/O failure.
C1_NoAbortOnRecordKind == pc # "panic"

-----------------------------------------------------------------------------
(* C2 *)

\* C2: after any sequence of test-entry records the test list is non-empty, its
\* element at index 0 is the pin-group test named "pins", and no other element
\* has type pin-group.
C2_PinsTestFirstAndOnly ==
    /\ Len(tests) >= 1
    /\ tests[1].ttype = "Pin"
    /\ tests[1].name = N_pins
    /\ \A k \in 2..Len(tests) : tests[k].ttype # "Pin"

\* the model is returned after two pin-group records and another test entry's Test
C2_Witness ==
    /\ pc = "done"
    /\ Cardinality({ k \in 1..Len(test_nodes) : test_nodes[k].kind = "Pins" }) >= 2
    /\ tests[1].result[1] # "Unknown"

\* the model is returned for a forest without any record
C2_WitnessEmpty == pc = "done" /\ tree = <<>> /\ tests = <<PinsTest>>

-----------------------------------------------------------------------------
(* C3 *)

\* C3: strip_index returns the text after the leading '<index>%' of a name that
\* contains a '%' ("17%c617" -> "c617"), returns a name without '%' unchanged,
\* and is idempotent on every name whose stripped form contains no further '%'.
C3_StripIndex ==
    /\ strip_index(N_17c617) = N_c617
    /\ \A s \in RecordNames :
          /\ HasPercent(s) => strip_index(s) = AfterPrefix(s)
          /\ ~HasPercent(s) => strip_index(s) = s
          /\ ~HasPercent(strip_index(s)) => strip_index(strip_index(s)) = strip_index(s)

-----------------------------------------------------------------------------
(* C4 *)

\* C4: when the source records carry non-empty names, every Test of the test
\* list has a non-empty name.
C4_NamesNonEmpty ==
    (\A s \in RecordNames : s # <<>>) => \A k \in 1..Len(tests) : tests[k].name # <<>>

-----------------------------------------------------------------------------
(* C5 *)

\* C5: the Test appended for a shorts record with primary status p and auxiliary
\* codes s1, s2, s3 is named "shorts" and has outcome pass if and only if p, s1,
\* s2 and s3 are all zero.
C5_ShortsOutcome ==
    (Interpreting /\ i >= 1 /\ last_entry.kind = "Shorts") =>
        /\ Last(tests).name = N_shorts
        /\ (Last(tests).result[1] = "Pass") <=>
              (last_entry.status = 0 /\ last_entry.aux = <<0, 0, 0>>)

-----------------------------------------------------------------------------
(* C6 *)

\* the statuses of the members of kind k of a group, in file order
RECURSIVE MemberStatuses(_, _)
MemberStatuses(members, k) ==
    IF members = <<>> THEN <<>>
    ELSE (IF Head(members).kind = k THEN <<Head(members).status>> ELSE <<>>)
         \o MemberStatuses(Tail(members), k)

\* first creates, later failure overwrites, later pass ignored: the status of
\* the last non-zero occurrence after the first, or else of the first
FinalStatus(ss) ==
    LET later == { k \in 2..Len(ss) : ss[k] # 0 }
    IN  IF later = {} THEN ss[1]
        ELSE ss[CHOOSE k \in later : \A j \in later : j <= k]

\* the Tests of type ty that a step appends to the test list
AppendedOfType(ty) ==
    SelectSeq(SubSeq(tests', Len(tests) + 1, Len(tests')), LAMBDA t : t.ttype = ty)

SlotRule(kind, ty) ==
    LET ss   == MemberStatuses(test_entry.branches, kind)
        slot == AppendedOfType(ty)
    IN  IF ss = <<>> THEN slot = <<>>
        ELSE /\ Len(slot) = 1
             /\ slot[1].result = <<BResult_from(FinalStatus(ss)), as_f32(FinalStatus(ss))>>
             /\ (slot[1].result[1] = "Fail") <=> (\E k \in 1..Len(ss) : ss[k] # 0)
             /\ (ss = <<0, 0, 3, 0>> => slot[1].result = <<"Fail", <<3, 1>>>>)

\* C6: inside one group the digital (respectively boundary-scan) occurrences
\* with statuses s1..sn yield one Test: the first occurrence appends it with
\* status s1, a later non-zero status overwrites its result, a later zero status
\* changes nothing; so the stored result is fail iff some si is non-zero, and
\* statuses [0, 0, 3, 0] end with status 3.
C6_GroupSlotRule ==
    [][At({"Block"}) => SlotRule("Digital", "Digital") /\ SlotRule("Boundary", "BoundaryS")]_vars

\* a group with digital statuses [0, 0, 3, 0] has been interpreted
C6_Witness ==
    /\ Interpreting /\ i = 1
    /\ last_entry.kind = "Block"
    /\ MemberStatuses(last_entry.branches, "Digital") = <<0, 0, 3, 0>>
    /\ Len(tests) = 2
    /\ tests[2].result = <<"Fail", <<3, 1>>>>

-----------------------------------------------------------------------------
(* C7 *)

\* the type tag of the Test of a standalone digital or boundary-scan record
StandaloneType(k) == IF k = "Digital" THEN "Digital" ELSE "BoundaryS"

\* an earlier test entry of the same kind carries the same name
Repeated ==
    \E j \in 1..i : test_nodes[j].kind = test_entry.kind /\ test_nodes[j].name = test_entry.name

\* C7 as claimed: a repeated standalone digital or boundary-scan record appends
\* no further Test entry (its status is merged into the entry of the first
\* occurrence).
C7_StandaloneMerged ==
    [][(At({"Digital", "Boundary"}) /\ Repeated) =>
         /\ Len(tests') = Len(tests)
         /\ (test_entry.status = 0 => tests' = tests)]_vars

\* C7 as amended: every standalone digital or boundary-scan record, repeated or
\* not, appends exactly one Test carrying its own status and leaves every
\* existing entry unchanged.
C7_StandaloneAppends ==
    [][At({"Digital", "Boundary"}) =>
         /\ Len(tests') = Len(tests) + 1
         /\ SubSeq(tests', 1, Len(tests)) = tests
         /\ Last(tests').ttype = StandaloneType(test_entry.kind)
         /\ Last(tests').result = <<BResult_from(test_entry.status), as_f32(test_entry.status)>>
      ]_vars

\* two standalone digital records of the same name have been interpreted: two Tests
C7_Witness ==
    /\ pc = "done" /\ i = 2
    /\ test_nodes[1].kind = "Digital" /\ test_nodes[2].kind = "Digital"
    /\ test_nodes[1].name = test_nodes[2].name
    /\ test_nodes[1].status = 0 /\ test_nodes[2].status = 3
    /\ Len(tests) = 3
    /\ tests[2].result = <<"Pass", <<0, 1>>>>
    /\ tests[3].result = <<"Fail", <<3, 1>>>>

-----------------------------------------------------------------------------
(* C8 *)

\* the names '<group>%<subname>' of the members of a group; a member without a
\* name of its own stands under the group name
GroupNames(block) ==
    { strip_index(block.name) \o <<"%">> \o strip_index(m.name) :
        m \in { x \in Range(block.branches) : x.hasName } }
    \cup { strip_index(block.name) }

\* C8: every Test produced from a member of a group is named
\* '<group>%<subname>', both index-stripped.
C8_GroupPrefix ==
    [][At({"Block"}) =>
         \A k \in (Len(tests) + 1)..Len(tests') : tests'[k].name \in GroupNames(test_entry)]_vars

-----------------------------------------------------------------------------
(* C9 *)

\* C9: a pin-group record with status s sets the result of the Test at index 0
\* to (pass if s = 0 else fail, s) and changes nothing else of the test list.
C9_PinsPatchesIndex0 ==
    [][At({"Pins"}) =>
         /\ Len(tests') = Len(tests)
         /\ tests'[1].result = <<IF test_entry.status = 0 THEN "Pass" ELSE "Fail",
                                 <<test_entry.status, 1>>>>
         /\ tests'[1].name = tests[1].name
         /\ tests'[1].ttype = tests[1].ttype
         /\ tests'[1].limits = tests[1].limits
         /\ \A k \in 2..Len(tests) : tests'[k] = tests[k]
      ]_vars

\* a pin-group record with status 3 has been interpreted after another Test was appended
C9_Witness ==
    /\ Interpreting /\ i >= 2
    /\ last_entry.kind = "Pins" /\ last_entry.status = 3
    /\ Len(tests) >= 2
    /\ tests[1].result = <<"Fail", <<3, 1>>>>

-----------------------------------------------------------------------------
(* C10 *)

\* t without its sign
Unsigned(t) == IF t # <<>> /\ Head(t) \in {"+", "-"} THEN Tail(t) ELSE t

\* t is the decimal notation of an integer
IsInteger(t) == Unsigned(t) # <<>> /\ \A k \in 1..Len(Unsigned(t)) : IsDigit(Unsigned(t)[k])

RECURSIVE StripZeros(_)
StripZeros(ds) == IF Len(ds) > 1 /\ Head(ds) = "0" THEN StripZeros(Tail(ds)) ELSE ds

\* digit strings of the same length: a <= b
RECURSIVE DigitsLeq(_, _)
DigitsLeq(a, b) ==
    IF a = <<>> THEN TRUE
    ELSE IF DigitVal(Head(a)) # DigitVal(Head(b)) THEN DigitVal(Head(a)) < DigitVal(Head(b))
    ELSE DigitsLeq(Tail(a), Tail(b))

\* the integer t denotes lies in -2^31 .. 2^31 - 1
FitsI32(t) ==
    LET ds    == StripZeros(Unsigned(t))
        bound == IF Head(t) = "-"
                 THEN <<"2", "1", "4", "7", "4", "8", "3", "6", "4", "8">>
                 ELSE <<"2", "1", "4", "7", "4", "8", "3", "6", "4", "7">>
    IN  Len(ds) < 10 \/ (Len(ds) = 10 /\ DigitsLeq(ds, bound))

\* the integer a digit string denotes
RECURSIVE Magnitude(_)
Magnitude(ds) ==
    IF ds = <<>> THEN 0 ELSE Magnitude(SubSeq(ds, 1, Len(ds) - 1)) * 10 + DigitVal(ds[Len(ds)])

IntegerOf(t) == IF Head(t) = "-" THEN -Magnitude(Unsigned(t)) ELSE Magnitude(Unsigned(t))

\* the main loop is at a directive ["@Programming_time", "<N>msec", ...], N an integer
AtProgrammingTime ==
    /\ At({"UserDefined"})
    /\ test_entry.tag = "@Programming_time"
    /\ Len(test_entry.args) >= 1
    /\ strip_suffix(test_entry.args[1], S_msec)[1]
    /\ IsInteger(strip_suffix(test_entry.args[1], S_msec)[2])

\* the <N> of the directive the main loop is at
MsecField == strip_suffix(test_entry.args[1], S_msec)[2]

\* the step appends exactly one Test named "Programming_time", outcome pass, no
\* limits, value N / 1000
AppendsProgrammingTime ==
    /\ Len(tests') = Len(tests) + 1
    /\ SubSeq(tests', 1, Len(tests)) = tests
    /\ Last(tests').name = N_Programming_time
    /\ Last(tests').limits = LimNone
    /\ Last(tests').result[1] = "Pass"
    /\ Last(tests').result[2] = Ratio(IntegerOf(MsecField), 1000)
    /\ (test_entry.args[1] = A_1500msec => Last(tests').result[2] = <<3, 2>>)

\* C10 as claimed: a directive ["@Programming_time", "<N>msec"] with N an integer
\* appends exactly one Test named "Programming_time" with outcome pass, no
\* limits and value N / 1000; "1500msec" gives 1.5.
C10_ProgrammingTimeAnyInteger == [][AtProgrammingTime => AppendsProgrammingTime]_vars

\* C10 as amended: the same for every N that fits a 32-bit signed integer; a
\* directive whose N lies outside -2^31 .. 2^31 - 1 appends no Test.
C10_ProgrammingTimeI32 ==
    [][AtProgrammingTime =>
         IF FitsI32(MsecField) THEN AppendsProgrammingTime ELSE tests' = tests]_vars

\* the directive ["@Programming_time", "1500msec"] has been interpreted
C10_Witness ==
    /\ Interpreting /\ i >= 1
    /\ last_entry.kind = "UserDefined" /\ last_entry.tag = "@Programming_time"
    /\ last_entry.args = <<A_1500msec>>
    /\ Last(tests).name = N_Programming_time
    /\ Last(tests).result = <<"Pass", <<3, 2>>>>

-----------------------------------------------------------------------------
(* Two calls of load_v2 side by side, on two threads.  Each call has its own *)
(* locals; a step of the specification is one iteration of the main loop of  *)
(* one call, or its return.  The forests are header-less sequences of test   *)
(* entries, so the header locals keep their defaults and are left out, as is *)
(* the timestamp fallback, which reads nothing but the file's metadata.      *)

Loads == {1, 2}

ConcurrentEntries ==
    { UserDefinedNode("@PS_info", <<A_12V, A_05A>>), UserDefinedNode("@PS_info", <<A_12V>>),
      ReportNode("r3"), DigitalNode(0, N_17c617, <<>>) }

ConcurrentForests == SeqsUpTo(ConcurrentEntries, MaxConcurrentNodes)

\* the locals of a call at the start of its main loop over the forest f
LoadLocals(f) ==
    [pc |-> "loop", test_nodes |-> f, i |-> 0,
     tests |-> St0.tests, report |-> St0.report, PS_counter |-> St0.PS_counter]

InitConcurrent ==
    /\ loads \in [Loads -> { LoadLocals(f) : f \in ConcurrentForests }]
    /\ pc = "start" /\ tree = <<>> /\ i = 0 /\ tests = <<PinsTest>> /\ report = <<>>
    /\ PS_counter = 0 /\ product_id = "NoID" /\ DMC = "NoDMC" /\ DMC_mb = "NoMB"
    /\ index = 1 /\ status = 0 /\ time_start = U64Zero /\ time_end = U64Zero
    /\ result = FALSE /\ meta = None /\ time_str = <<>>

\* LoadIteration with PS_counter kept in one place for all calls, as a static
\* would be: the cell of call 1 is read and written by every call
LoadIteration_SharedCounter(ls, l) ==
    LET ld  == ls[l]
        cur == [tests |-> ld.tests, report |-> ld.report,
                PS_counter |-> ls[1].PS_counter]
        out == EntryHandler(cur, ld.test_nodes[ld.i + 1])
        ls1 == [ls EXCEPT ![l] = [ld EXCEPT !.tests = out.tests, !.report = out.report,
                                            !.i = ld.i + 1]]
    IN  [ls1 EXCEPT ![1].PS_counter = out.PS_counter]

\* one iteration of the main loop of call l: the arm reads and writes the
\* locals of that call only
LoadIteration(ls, l) ==
    LET ld  == ls[l]
        cur == [tests |-> ld.tests, report |-> ld.report, PS_counter |-> ld.PS_counter]
        out == EntryHandler(cur, ld.test_nodes[ld.i + 1])
    IN  [ls EXCEPT ![l] = [ld EXCEPT !.tests = out.tests, !.report = out.report,
                                     !.PS_counter = out.PS_counter, !.i = ld.i + 1]]

LoadVarsUnchanged ==
    UNCHANGED <<pc, tree, i, tests, report, PS_counter, product_id, DMC, DMC_mb, index,
                status, time_start, time_end, result, meta, time_str>>

LoadEntry(l) ==
    /\ loads[l].pc = "loop" /\ loads[l].i < Len(loads[l].test_nodes)
    /\ loads' = LoadIteration(loads, l)
    /\ LoadVarsUnchanged

\* call l returns its model
LoadReturn(l) ==
    /\ loads[l].pc = "loop" /\ loads[l].i = Len(loads[l].test_nodes)
    /\ loads' = [loads EXCEPT ![l].pc = "done", ![l].report = Join(@)]
    /\ LoadVarsUnchanged

NextConcurrent ==
    \/ \E l \in Loads : LoadEntry(l)
    \/ \E l \in Loads : LoadReturn(l)

SpecConcurrent == InitConcurrent /\ [][NextConcurrent]_vars

-----------------------------------------------------------------------------
(* C11: the numbering of the power-supply measurements *)

\* the field t ends with the unit character c
HasUnit(t, c) == t # <<>> /\ t[Len(t)] = c

\* the field t without its last character
Body(t) == SubSeq(t, 1, Len(t) - 1)

\* t is a number in plain decimal notation
IsDecimal(t) ==
    LET b    == Unsigned(t)
        dots == { k \in 1..Len(b) : b[k] = "." }
    IN  /\ Cardinality(dots) <= 1
        /\ Len(b) > Cardinality(dots)
        /\ \A k \in (1..Len(b)) \ dots : IsDigit(b[k])

\* the digits of a decimal without its sign and its point
RECURSIVE DigitsOf(_)
DigitsOf(t) ==
    IF t = <<>> THEN <<>>
    ELSE IF IsDigit(Head(t)) THEN <<Head(t)>> \o DigitsOf(Tail(t))
    ELSE DigitsOf(Tail(t))

\* the number of digits after the point
Decimals(t) == IF DotAt(t) = 0 THEN 0 ELSE Len(t) - DotAt(t)

\* the value of a decimal
DecimalOf(t) ==
    LET m == Magnitude(DigitsOf(t))
    IN  Ratio(IF Head(t) = "-" THEN -m ELSE m, Pow10(Decimals(t)))

\* the node n is a directive ["@PS_info", "<voltage>V", "<current>A", ...]
WellFormedPSInfo(n) ==
    /\ n.kind = "UserDefined" /\ n.tag = "@PS_info"
    /\ Len(n.args) >= 2
    /\ HasUnit(n.args[1], "V") /\ IsDecimal(Body(n.args[1]))
    /\ HasUnit(n.args[2], "A") /\ IsDecimal(Body(n.args[2]))

\* the number of well-formed "@PS_info" directives among the first k test entries
WellFormedUpTo(k) == Cardinality({ j \in 1..k : WellFormedPSInfo(test_nodes[j]) })

PSName(k, quantity) == N_PS_Info_ \o <<Digits[k + 1]>> \o quantity

\* the step appends the two Tests of the k-th well-formed directive, and only them
AppendsPSInfo(k) ==
    /\ Len(tests') = Len(tests) + 2
    /\ SubSeq(tests', 1, Len(tests)) = tests
    /\ tests'[Len(tests) + 1].name = PSName(k, N_Voltage)
    /\ tests'[Len(tests) + 1].result = <<"Pass", DecimalOf(Body(test_entry.args[1]))>>
    /\ tests'[Len(tests) + 2].name = PSName(k, N_Current)
    /\ tests'[Len(tests) + 2].result = <<"Pass", DecimalOf(Body(test_entry.args[2]))>>
    /\ (test_entry.args = <<A_12V, A_05A>> =>
          /\ tests'[Len(tests) + 1].result[2] = <<12, 1>>
          /\ tests'[Len(tests) + 2].result[2] = <<1, 2>>)

\* C11: the k-th well-formed "@PS_info" directive among the test entries, in
\* file order and counting from 1, appends exactly the two adjacent Tests
\* "PS_Info_<k>%Voltage" and "PS_Info_<k>%Current", both pass, with the parsed
\* voltage and current; a malformed directive appends nothing and consumes no
\* number, so the numbers used are 1..m without gap or repetition.
C11_PSInfoNumbering ==
    [][At({"UserDefined"}) /\ test_entry.tag = "@PS_info" =>
         IF WellFormedPSInfo(test_entry)
         THEN AppendsPSInfo(WellFormedUpTo(i) + 1) /\ PS_counter' = WellFormedUpTo(i) + 1
         ELSE tests' = tests /\ PS_counter' = PS_counter]_vars

\* a well-formed directive, a malformed one and a second well-formed one have
\* been interpreted, and the numbers 1 and 2 were given
C11_Witness ==
    /\ pc = "done" /\ Len(test_nodes) = 3
    /\ WellFormedPSInfo(test_nodes[1])
    /\ test_nodes[2].kind = "UserDefined" /\ test_nodes[2].tag = "@PS_info"
    /\ ~WellFormedPSInfo(test_nodes[2])
    /\ WellFormedPSInfo(test_nodes[3])
    /\ Len(tests) = 5
    /\ tests[2].name = PSName(1, N_Voltage) /\ tests[3].name = PSName(1, N_Current)
    /\ tests[4].name = PSName(2, N_Voltage) /\ tests[5].name = PSName(2, N_Current)

-----------------------------------------------------------------------------
(* C12: malformed and unknown directives *)

\* the field t ends with "msec"
HasMsec(t) == Len(t) >= 4 /\ SubSeq(t, Len(t) - 3, Len(t)) = S_msec

\* the node n is a directive whose first token is not recognized, or a
\* recognized one with too few fields, a missing unit suffix or a value that
\* is not a number
MalformedDirective(n) ==
    /\ n.kind = "UserDefined"
    /\ \/ n.tag \notin {"@Programming_time", "@PS_info"}
       \/ /\ n.tag = "@Programming_time"
          /\ \/ Len(n.args) < 1
             \/ ~HasMsec(n.args[1])
             \/ ~IsInteger(SubSeq(n.args[1], 1, Len(n.args[1]) - 4))
       \/ n.tag = "@PS_info" /\ ~WellFormedPSInfo(n)

\* the sequence sq without its k-th element
Without(sq, k) == SubSeq(sq, 1, k - 1) \o SubSeq(sq, k + 1, Len(sq))

\* C12: a directive with an unrecognized first token, or a recognized one
\* with missing or malformed fields, appends no Test, leaves the test list,
\* the report accumulator and the power-supply counter as they are and does
\* not abort the load: the loop goes on to the next test entry in the state
\* it had before the directive, and the returned tests and report are those
\* of the same test entries without the directive.
C12_MalformedDirectiveIgnored ==
    /\ [][At({"UserDefined"}) /\ MalformedDirective(test_entry) =>
            /\ tests' = tests /\ report' = report /\ PS_counter' = PS_counter
            /\ pc' = "loop" /\ i' = i + 1]_vars
    /\ [](pc = "done" =>
            \A k \in 1..Len(test_nodes) :
                MalformedDirective(test_nodes[k]) =>
                    /\ tests = MainLoop(St0, Without(test_nodes, k)).tests
                    /\ report = Join(MainLoop(St0, Without(test_nodes, k)).report))

\* a malformed directive was skipped and the digital record after it was
\* interpreted as the first record of the file
C12_Witness ==
    /\ pc = "loop" /\ i = 2
    /\ MalformedDirective(test_nodes[1])
    /\ test_nodes[2].kind = "Digital"
    /\ Len(tests) = 2 /\ tests[1] = PinsTest /\ tests[2].ttype = "Digital"
    /\ PS_counter = 0

-----------------------------------------------------------------------------
(* C13: forests without headers *)

\* the last top-level node is a batch header
HasBatchHeader == tree # <<>> /\ tree[Len(tree)].kind = "Batch"

\* the nodes whose last one is expected to be the board-test header
HeaderLevel == IF HasBatchHeader THEN tree[Len(tree)].branches ELSE tree

HasBTestHeader == HeaderLevel # <<>> /\ HeaderLevel[Len(HeaderLevel)].kind = "BTest"

BTestHeader == HeaderLevel[Len(HeaderLevel)]

\* YYMMDDhhmmss of the modification time that was read, as limbs
PackedMTime ==
    <<(meta[1].year - 2000) * 10000 + meta[1].month * 100 + meta[1].day,
      meta[1].hour * 10000 + meta[1].minute * 100 + meta[1].second>>

\* both timestamps are the modification time of the file; they are 0 when no
\* modification time was obtained
TimesAreMTime ==
    IF meta # None
    THEN time_start = PackedMTime /\ time_end = PackedMTime
    ELSE time_start = U64Zero /\ time_end = U64Zero

\* C13 as claimed: when the batch header and/or the board-test header is
\* missing, the returned model has product id "NoID" if the batch header is
\* missing, DMC "NoDMC" if the board-test header is missing, and both
\* timestamps equal to the modification time of the file.
C13_MissingHeaderDefaults ==
    pc = "done" /\ (~HasBatchHeader \/ ~HasBTestHeader) =>
        /\ (~HasBatchHeader => product_id = "NoID")
        /\ (~HasBTestHeader => DMC = "NoDMC")
        /\ TimesAreMTime

\* C13 as amended: a missing header never fails the load (a panic is always
\* at a todo!() record); the product id is "NoID" when the batch header is
\* missing; when the board-test header is missing the DMC is "NoDMC" and both
\* timestamps are the modification time; when only the batch header is
\* missing the timestamps the board-test header supplies are kept.
C13_MissingHeaderDefaultsByHeader ==
    /\ (pc = "panic" => test_nodes[i + 1].kind \in {"AlarmId", "Alarm", "Array"})
    /\ (pc \in {"loop", "done"} /\ ~HasBatchHeader => product_id = "NoID")
    /\ (pc \in {"loop", "done"} /\ ~HasBTestHeader => DMC = "NoDMC")
    /\ (pc = "done" /\ ~HasBTestHeader => TimesAreMTime)
    /\ (pc = "done" /\ ~HasBatchHeader /\ HasBTestHeader =>
          /\ (BTestHeader.t_start # U64Zero => time_start = BTestHeader.t_start)
          /\ (BTestHeader.t_end # U64Zero => time_end = BTestHeader.t_end))

\* a model was returned for a non-empty forest without any header
C13_Witness ==
    /\ pc = "done" /\ tree # <<>>
    /\ ~HasBatchHeader /\ ~HasBTestHeader
    /\ product_id = "NoID" /\ DMC = "NoDMC"
    /\ meta # None /\ time_start = PackedMTime /\ time_end = PackedMTime

-----------------------------------------------------------------------------
(* C14: the two header positions *)

\* C14: the product id comes from the batch header, which is the last
\* top-level node; DMC, status, panel index and the supplied start and end
\* time come from the board-test header, which is the last branch of the batch
\* header or, without a batch header, the last top-level node; the
\* mother-board id is the mother-panel id of that header when it has one and
\* the DMC otherwise; the result of the returned model is true exactly when
\* the status is 0.
C14_HeaderPositions ==
    pc \in {"loop", "done"} =>
        /\ (HasBatchHeader => product_id = tree[Len(tree)].id)
        /\ (HasBTestHeader =>
              /\ DMC = BTestHeader.id
              /\ status = BTestHeader.status
              /\ index = BTestHeader.b_index
              /\ DMC_mb = IF BTestHeader.mb_id # None THEN BTestHeader.mb_id[1] ELSE DMC
              /\ (pc = "loop" \/ BTestHeader.t_start # U64Zero => time_start = BTestHeader.t_start)
              /\ (pc = "loop" \/ BTestHeader.t_end # U64Zero => time_end = BTestHeader.t_end))
        /\ (pc = "done" => result = (status = 0))

\* a model was returned for a batch with two board tests: the values are the
\* ones of the last board test
C14_Witness ==
    /\ pc = "done"
    /\ HasBatchHeader /\ Len(HeaderLevel) = 2 /\ HeaderLevel[1].kind = "BTest"
    /\ HasBTestHeader /\ BTestHeader.id = "D1" /\ HeaderLevel[1].id = "D0"
    /\ product_id = "P1" /\ DMC = "D1" /\ DMC_mb = "MB1" /\ index = 2
    /\ status = 0 /\ result = TRUE
    /\ time_start = T_start /\ time_end = T_end

-----------------------------------------------------------------------------
(* C15: the timestamp fallback *)

\* the start and end time the forest supplies: those of the board-test header
SuppliedStart == IF HasBTestHeader THEN BTestHeader.t_start ELSE U64Zero

SuppliedEnd == IF HasBTestHeader THEN BTestHeader.t_end ELSE U64Zero

-----------------------------------------------------------------------------
(* C16: packing and rendering a date-time *)

\* n in 0..99 as two digits
Two(n) == <<Digits[(n \div 10) + 1], Digits[(n % 10) + 1]>>

\* "YY.MM.DD hh:mm:ss" of the date-time t
Rendered(t) ==
    Two(t.year - 2000) \o <<".">> \o Two(t.month) \o <<".">> \o Two(t.day) \o <<" ">>
    \o Two(t.hour) \o <<":">> \o Two(t.minute) \o <<":">> \o Two(t.second)

-----------------------------------------------------------------------------
(* C17: the limits of analog tests *)

IsLimitLine(n) == n.kind \in {"Lim2", "Lim3"}

\* the limits a limit line stands for
LimitsOfLine(n) ==
    IF n.kind = "Lim2" THEN <<"Lim2", n.lims[1], n.lims[2]>>
    ELSE <<"Lim3", n.lims[1], n.lims[2], n.lims[3]>>

\* the limits of the first limit line among the sub-records of n, None
\* without a limit line
LimitsAmongSubRecords(n) ==
    IF \E k \in 1..Len(n.branches) : IsLimitLine(n.branches[k])
    THEN LimitsOfLine(n.branches[CHOOSE k \in 1..Len(n.branches) :
                                   /\ IsLimitLine(n.branches[k])
                                   /\ \A j \in 1..(k - 1) : ~IsLimitLine(n.branches[j])])
    ELSE LimNone

\* the limits of the first sub-record of n, None when n has no sub-record or
\* the first one is not a limit line
LimitsOfFirstSubRecord(n) ==
    IF n.branches # <<>> /\ IsLimitLine(n.branches[1])
    THEN LimitsOfLine(n.branches[1]) ELSE LimNone

\* the Tests the step appends
Appended == SubSeq(tests', Len(tests) + 1, Len(tests'))

IsAnalogTest(t) == t.ttype \notin {"Pin", "Shorts", "Digital", "BoundaryS", "Testjet"}

IsAnalogNode(n) == n.kind = "Analog"

\* the analog Tests a group step appends have the limits L gives for the
\* analog members of the group, member by member
GroupLimitsAre(L(_)) ==
    LET members == SelectSeq(test_entry.branches, IsAnalogNode)
        analogs == SelectSeq(Appended, IsAnalogTest)
    IN  /\ Len(analogs) = Len(members)
        /\ \A k \in 1..Len(members) : analogs[k].limits = L(members[k])

C17_LimitsOfFirstSubRecord ==
    [][/\ (At({"Analog"}) /\ test_entry.hasName =>
            /\ Len(tests') = Len(tests) + 1
            /\ Last(tests').limits = LimitsOfFirstSubRecord(test_entry)
            /\ (test_entry.branches = <<Lim2Node(F(55, 10), F(45, 10))>> =>
                  Last(tests').limits = <<"Lim2", <<11, 2>>, <<9, 2>>>>))
       /\ (At({"Analog"}) /\ ~test_entry.hasName => tests' = tests)
       /\ (At({"Block"}) => GroupLimitsAre(LimitsOfFirstSubRecord))]_vars

\* an analog entry with the two-point limit line (5.5, 4.5) has been
\* interpreted and its Test has Lim2(5.5, 4.5)
C17_Witness ==
    /\ Interpreting /\ i >= 1
    /\ last_entry.kind = "Analog" /\ last_entry.hasName
    /\ last_entry.branches = <<Lim2Node(F(55, 10), F(45, 10))>>
    /\ Last(tests).limits = <<"Lim2", <<11, 2>>, <<9, 2>>>>

-----------------------------------------------------------------------------
(* C18: the report text *)

\* the report lines of the nodes and of everything below them, in pre-order
RECURSIVE PreOrderReports(_)
PreOrderReports(nodes) ==
    IF nodes = <<>> THEN <<>>
    ELSE (IF Head(nodes).kind = "Report" THEN <<Head(nodes).text>> ELSE <<>>)
         \o PreOrderReports(Head(nodes).branches)
         \o PreOrderReports(Tail(nodes))

\* C18: the report text of the returned model is the newline-joined
\* concatenation, in pre-order, of every report line anywhere in the
\* interpreted tree, whatever its depth and the kind of its parent: none is
\* dropped, none appears twice or out of order.  Stated for the forests whose
\* test entries are all records that are legal at the test-entry level.
C18_ReportComplete ==
    pc = "done" /\ (\A k \in 1..Len(test_nodes) : test_nodes[k].kind \in HandledKinds) =>
        report = Join(PreOrderReports(test_nodes))

-----------------------------------------------------------------------------
(* C20: only the selected board test is interpreted *)

\* the branches of the board-test header, or the top-level nodes without one
SelectedEntries == IF HasBTestHeader THEN BTestHeader.branches ELSE tree

\* C20: the Tests and the report of the returned model are those of the
\* branches of the selected board-test header (the last branch of the last
\* top-level batch node) interpreted on their own: the other top-level nodes
\* and the earlier board tests of the batch contribute nothing; without a
\* board-test header the entries interpreted are the top-level nodes.
C20_OnlySelectedBoardTest ==
    pc = "done" =>
        /\ tests = MainLoop(St0, SelectedEntries).tests
        /\ report = Join(MainLoop(St0, SelectedEntries).report)
        /\ (HasBTestHeader /\ BTestHeader.branches = <<>> =>
              tests = <<PinsTest>> /\ report = <<>>)

\* a model was returned for a batch of two board tests, the first with a
\* report line and the selected one with a digital record: one digital Test
\* and an empty report
C20_Witness ==
    /\ pc = "done"
    /\ HasBatchHeader /\ HasBTestHeader /\ Len(HeaderLevel) = 2
    /\ HeaderLevel[1].kind = "BTest" /\ HeaderLevel[1].branches = <<ReportNode("r1")>>
    /\ BTestHeader.branches = <<DigitalNode(3, N_17c617, <<>>)>>
    /\ Len(tests) = 2 /\ tests[2].ttype = "Digital"
    /\ report = <<>>

-----------------------------------------------------------------------------
(* C19: two loads side by side *)

IsPSName(n) == Len(n) > Len(N_PS_Info_) /\ SubSeq(n, 1, Len(N_PS_Info_)) = N_PS_Info_

\* the names of the power-supply Tests of a test list, in order
PSNames(ts) ==
    LET IsPSTest(t) == IsPSName(t.name)
        ps == SelectSeq(ts, IsPSTest)
    IN  [k \in 1..Len(ps) |-> ps[k].name]

\* C19: in every interleaving of the iterations of two loads, the test list,
\* the report and the power-supply counter of each load are those of the same
\* load run alone over the entries it has interpreted so far, and the report
\* text it returns is the one it returns alone; the power-supply Tests of each
\* load are numbered from 1 whatever the other load has interpreted.
C19_LoadsDoNotInterfere ==
    \A l \in DOMAIN loads :
        LET ld    == loads[l]
            alone == MainLoop(St0, SubSeq(ld.test_nodes, 1, ld.i))
        IN  /\ ld.tests = alone.tests
            /\ ld.PS_counter = alone.PS_counter
            /\ ld.report = IF ld.pc = "done" THEN Join(alone.report) ELSE alone.report
            /\ (PSNames(ld.tests) # <<>> => PSNames(ld.tests)[1] = PSName(1, N_Voltage))

\* load 1 has interpreted two well-formed "@PS_info" directives and load 2 one:
\* the Tests of load 2 are numbered 1, those of load 1 are numbered 1 and 2
C19_Witness ==
    /\ DOMAIN loads = Loads
    /\ loads[1].i = 2 /\ loads[1].PS_counter = 2
    /\ loads[2].i = 1 /\ loads[2].PS_counter = 1
    /\ PSNames(loads[1].tests) =
          <<PSName(1, N_Voltage), PSName(1, N_Current), PSName(2, N_Voltage), PSName(2, N_Current)>>
    /\ PSNames(loads[2].tests) = <<PSName(1, N_Voltage), PSName(1, N_Current)>>

-----------------------------------------------------------------------------
(* C21: the test list only grows *)

\* from the test list before to the test list after, the list grows at its
\* end, the entries keep their name, type and limits, and an entry whose
\* result differs satisfies MayChange(k)
GrowsOnly(before, after, MayChange(_)) ==
    /\ Len(after) >= Len(before)
    /\ \A k \in 1..Len(before) :
          /\ after[k].name = before[k].name
          /\ after[k].ttype = before[k].ttype
          /\ after[k].limits = before[k].limits
          /\ (after[k].result # before[k].result => MayChange(k))

\* the test list after the first j members of the group the loop is at
TestsAfterMembers(j) ==
    BlockLoop([tests |-> tests, report |-> report, digital_tp |-> None, boundary_tp |-> None],
              strip_index(test_entry.name), SubSeq(test_entry.branches, 1, j)).tests

\* member by member, a group changes only the result of a digital or
\* boundary-scan Test of its own, at a later member of that kind with a
\* non-zero status
GroupGrowsOnly ==
    /\ tests' = TestsAfterMembers(Len(test_entry.branches))
    /\ \A j \in 1..Len(test_entry.branches) :
          LET before == TestsAfterMembers(j - 1)
              member == test_entry.branches[j]
              MayChange(k) ==
                  /\ k > Len(tests)
                  /\ member.status # 0
                  /\ \/ member.kind = "Digital" /\ before[k].ttype = "Digital"
                     \/ member.kind = "Boundary" /\ before[k].ttype = "BoundaryS"
          IN  GrowsOnly(before, TestsAfterMembers(j), MayChange)

\* C21: every step of the interpretation appends entries at the end of the
\* test list or changes the result of one existing entry; name, type and
\* limits of an entry never change; a result changes only at index 0, by a
\* pin-group record, or at the digital or boundary-scan slot the group being
\* processed created earlier, by a later non-zero member of that kind; a
\* group changes no Test that was in the list before it.
C21_TestListOnlyGrows ==
    [][pc = "loop" =>
         LET PinsAtIndex0(k) == k = 1 /\ At({"Pins"})
         IN  /\ GrowsOnly(tests, tests', PinsAtIndex0)
             /\ (At({"Block"}) => GroupGrowsOnly)]_vars

\* a group whose second digital member overwrote the slot of the first, then
\* a pin-group record that patched index 0: two Tests, both changed after
\* they were appended
C21_Witness ==
    /\ pc = "loop" /\ i = 2
    /\ test_nodes[1].kind = "Block"
    /\ MemberStatuses(test_nodes[1].branches, "Digital") = <<0, 3>>
    /\ test_nodes[2].kind = "Pins" /\ test_nodes[2].status = 3
    /\ Len(tests) = 2
    /\ tests[1].name = N_pins /\ tests[1].result = <<"Fail", <<3, 1>>>>
    /\ tests[2].ttype = "Digital" /\ tests[2].result = <<"Fail", <<3, 1>>>>

-----------------------------------------------------------------------------
(* C22: one digital and one boundary-scan slot per group *)

\* the members of kind k of the group the loop is at, in file order
MembersOfKind(k) == SelectSeq(test_entry.branches, LAMBDA m : m.kind = k)

\* the group has at least one digital and at least one boundary-scan member
HasBothKinds == MembersOfKind("Digital") # <<>> /\ MembersOfKind("Boundary") # <<>>

\* a name without its index prefix: the text after the first '%', the whole
\* name when there is no '%'
IndexStripped(s) == IF HasPercent(s) THEN AfterPrefix(s) ELSE s

\* the names a Test named after the member m of the group can have: the
\* index-stripped name of m, alone or behind the index-stripped group name
NamedAfter(m) ==
    { IndexStripped(m.name),
      IndexStripped(test_entry.name) \o <<"%">> \o IndexStripped(m.name) }

\* the group step appends exactly one Test of type ty for all its members of
\* kind k, with a name among Names(first member of kind k) and the result
\* left by the statuses of all of them, whatever their names
OneSlot(k, ty, Names(_)) ==
    LET members == MembersOfKind(k)
        slot    == AppendedOfType(ty)
        final   == FinalStatus(MemberStatuses(test_entry.branches, k))
    IN  /\ Len(slot) = 1
        /\ slot[1].name \in Names(members[1])
        /\ slot[1].result = <<IF final = 0 THEN "Pass" ELSE "Fail", <<final, 1>>>>

\* C22: a group with d >= 1 digital and b >= 1 boundary-scan members
\* contributes exactly one Test of type digital and exactly one of type
\* boundary-scan, whatever the names of the members; each is named after the
\* first member of its kind, and a later member with another name and a
\* non-zero status overwrites the result kept under that name.
C22_OneSlotPerKind ==
    [][At({"Block"}) /\ HasBothKinds =>
         OneSlot("Digital", "Digital", NamedAfter)
         /\ OneSlot("Boundary", "BoundaryS", NamedAfter)]_vars

\* the name strip_index gives for the name of the member m
StripIndexName(m) == { strip_index(m.name) }

\* C22, what the code does: the same, with the Test carrying what strip_index
\* leaves of the first member's name, which is the empty name when that name
\* has no '%'.
C22_OneSlotPerKindStripIndex ==
    [][At({"Block"}) /\ HasBothKinds =>
         OneSlot("Digital", "Digital", StripIndexName)
         /\ OneSlot("Boundary", "BoundaryS", StripIndexName)]_vars

\* a group with the digital members 3%d1 (status 0) and d2 (status 5) and the
\* boundary-scan members 3%d1 (status 0) and d2 (status 3) has been
\* interpreted: one digital Test d1 with status 5, one boundary-scan Test d1
\* with status 3
C22_Witness ==
    /\ Interpreting /\ i = 1
    /\ last_entry.kind = "Block"
    /\ last_entry.branches = <<DigitalNode(0, N_3d1, <<>>), DigitalNode(5, N_d2, <<>>),
                               BoundaryNode(N_3d1, 0, <<>>), BoundaryNode(N_d2, 3, <<>>)>>
    /\ Len(tests) = 3
    /\ tests[2].ttype = "Digital" /\ tests[2].name = <<"d", "1">>
    /\ tests[2].result = <<"Fail", <<5, 1>>>>
    /\ tests[3].ttype = "BoundaryS" /\ tests[3].name = <<"d", "1">>
    /\ tests[3].result = <<"Fail", <<3, 1>>>>

====
